---- MODULE Spec2Model ----
(***************************************************************************)
(* Model of src/Controller_check.py: discovery, grouping, metadata         *)
(* extraction, quality assessment and completeness check of satellite      *)
(* raster products.                                                        *)
(*                                                                         *)
(* Python strings that the code splits, indexes or slices (file names,     *)
(* stems, satellite types, ids, acquisition times) are sequences of        *)
(* one-character strings.  The string literals of the rule tables that the *)
(* code only compares and copies are TLA+ strings; the non-ASCII ones are  *)
(* written with the ASCII tags below.                                      *)
(*      "全色"   PAN        "前视"  FWD                                    *)
(*      "多光谱" MSS        "下视"  NADIR                                  *)
(*      "高分辨" HIRES      "后视"  BWD                                    *)
(***************************************************************************)
EXTENDS Integers, Sequences, FiniteSets, TLC

PAN == "PAN"
MSS == "MSS"
HIRES == "HIRES"
FWD == "FWD"
NADIR == "NADIR"
BWD == "BWD"

(***************************************************************************)
(* String primitives of Python, on sequences of characters.                *)
(***************************************************************************)
Min(a, b) == IF a < b THEN a ELSE b

RECURSIVE SplitAcc(_, _, _, _, _)
SplitAcc(s, d, i, cur, acc) ==
  IF i > Len(s) THEN Append(acc, cur)
  ELSE IF s[i] = d THEN SplitAcc(s, d, i + 1, <<>>, Append(acc, cur))
  ELSE SplitAcc(s, d, i + 1, Append(cur, s[i]), acc)

\* str.split(d) for a one-character delimiter: never empty, "" gives [""]
Split(s, d) == SplitAcc(s, d, 1, <<>>, <<>>)

\* s[-1] of a non-empty list
Last(xs) == xs[Len(xs)]

\* s[:n]
Prefix(s, n) == SubSeq(s, 1, Min(n, Len(s)))

\* s[a:b] with 0 <= a <= b (Python offsets)
Slice(s, a, b) == SubSeq(s, a + 1, Min(b, Len(s)))

Whitespace == {" "}

\* not s.strip()
IsBlank(s) == \A i \in 1..Len(s) : s[i] \in Whitespace

\* the last index of character c in s, 0 when absent (str.rfind + 1)
RFind(s, c) ==
  IF \E i \in 1..Len(s) : s[i] = c
  THEN CHOOSE i \in 1..Len(s) : s[i] = c /\ \A j \in (i + 1)..Len(s) : s[j] # c
  ELSE 0

\* PurePath.stem of a file name: the name without its last suffix
PathStem(name) ==
  LET i == RFind(name, ".")
  IN IF 1 < i /\ i < Len(name) THEN SubSeq(name, 1, i - 1) ELSE name

\* str.endswith
EndsWith(s, suf) ==
  /\ Len(s) >= Len(suf)
  /\ SubSeq(s, Len(s) - Len(suf) + 1, Len(s)) = suf

(***************************************************************************)
(* Satellite types, as the code spells them.                               *)
(***************************************************************************)
GF1 == <<"G", "F", "1">>
GF2 == <<"G", "F", "2">>
GF6 == <<"G", "F", "6">>
GF7 == <<"G", "F", "7">>
ZY1 == <<"Z", "Y", "1">>
zy303a == <<"z", "y", "3", "0", "3", "a">>
zy302a == <<"z", "y", "3", "0", "2", "a">>
SV1_03 == <<"S", "V", "1", "-", "0", "3">>
SV_2 == <<"S", "V", "-", "2">>
TH01_01 == <<"T", "H", "0", "1", "-", "0", "1">>
TH01_02 == <<"T", "H", "0", "1", "-", "0", "2">>
TH01_03 == <<"T", "H", "0", "1", "-", "0", "3">>
TH01_04 == <<"T", "H", "0", "1", "-", "0", "4">>

TwoSensorIdTypes == {GF1, GF2, GF6, ZY1}
ZY3Types == {zy303a, zy302a}
SVTypes == {SV1_03, SV_2}
TH01Types == {TH01_01, TH01_02, TH01_03, TH01_04}
KnownTypes == TwoSensorIdTypes \cup {GF7} \cup ZY3Types \cup SVTypes \cup TH01Types

(***************************************************************************)
(* get_tif_id: the acquisition id of a stem.  The result is               *)
(* [exc |-> "ValueError"] when the function raises, and                    *)
(* [exc |-> "", val |-> id] when it returns.                               *)
(***************************************************************************)
Raise(e) == [exc |-> e, val |-> <<>>]
Return(v) == [exc |-> "", val |-> v]

\* a plausible slip: the id of an unknown type is its first segment
UnknownTypeId_first_segment(tif_name) == Split(tif_name, "_")[1]

\* line 108: an unknown satellite type keeps the whole stem
UnknownTypeId(tif_name) == tif_name

\* the rule of one family, inside the try block: IndexError gives tif_name
IdRule(tif_name, sate_type) ==
  LET parts == Split(tif_name, "_")
      n == Len(parts)
  IN IF sate_type \in TwoSensorIdTypes
       THEN Split(Last(Split(tif_name, "_")), "-")[1]
     ELSE IF sate_type = GF7
       THEN Last(parts)
     ELSE IF sate_type \in ZY3Types
       THEN IF n >= 4 THEN parts[3] \o <<"_">> \o parts[4] ELSE tif_name
     ELSE IF sate_type \in SVTypes
       THEN IF n >= 3 THEN parts[3] ELSE tif_name
     ELSE IF sate_type \in TH01Types
       THEN IF n >= 2 THEN parts[n - 1] \o <<"_">> \o parts[n] ELSE tif_name
     ELSE UnknownTypeId(tif_name)

get_tif_id(tif_name, sate_type) ==
  IF IsBlank(tif_name) THEN Raise("ValueError")
  ELSE IF IsBlank(sate_type) THEN Raise("ValueError")
  ELSE Return(IdRule(tif_name, sate_type))

(***************************************************************************)
(* get_message: the metadata record of one stem,                           *)
(* <<tif_id, sate_type_ret, tif_time, sensor_type, sensor_angle,           *)
(* resolution>>.  Inside the try block the assignments run in the code's   *)
(* order, so an IndexError keeps what was assigned before it.              *)
(***************************************************************************)
Meta(tif_name, tif_time, sensor_type, sensor_angle, resolution) ==
  <<tif_name, Split(tif_name, "_")[1], tif_time, sensor_type, sensor_angle, resolution>>

\* a plausible slip: the default record keeps a resolution
MetaDefault_with_resolution(tif_name, tif_time) == Meta(tif_name, tif_time, "", "-", "2m")

\* the defaults of lines 176-181, with the acquisition time read so far
MetaDefault(tif_name, tif_time) == Meta(tif_name, tif_time, "", "-", "")

\* GF1, GF2, GF6, ZY1, SV1-03, SV-2: time segment k (Python index), sensor code
\* the first character of the last "-"-delimited token of the whole name
HyphenCodeRule(tif_name, k, resM, resP) ==
  LET parts == Split(tif_name, "_")
      tok == Last(Split(tif_name, "-"))
  IN IF Len(parts) < k + 1 THEN MetaDefault(tif_name, <<>>)
     ELSE IF Len(tok) = 0 THEN MetaDefault(tif_name, parts[k + 1])
     ELSE IF tok[1] = "M" THEN Meta(tif_name, parts[k + 1], MSS, "-", resM)
     ELSE IF tok[1] = "P" THEN Meta(tif_name, parts[k + 1], PAN, "-", resP)
     ELSE MetaDefault(tif_name, parts[k + 1])

GF7Rule(tif_name) ==
  LET parts == Split(tif_name, "_")
  IN IF Len(parts) < 5 THEN MetaDefault(tif_name, <<>>)
     ELSE LET tif_time == Prefix(parts[5], 8)
          IN IF Len(parts) < 6 \/ Len(parts[6]) = 0 THEN MetaDefault(tif_name, tif_time)
             ELSE IF parts[6][1] = "M" THEN Meta(tif_name, tif_time, MSS, BWD, "3.2m")
             ELSE IF parts[6][1] = "B" THEN Meta(tif_name, tif_time, PAN, BWD, "0.8m")
             ELSE IF parts[6][1] = "F" THEN Meta(tif_name, tif_time, PAN, FWD, "0.8m")
             ELSE MetaDefault(tif_name, tif_time)

ZY3Rule(tif_name) ==
  LET parts == Split(tif_name, "_")
  IN IF Len(parts) < 5 THEN MetaDefault(tif_name, <<>>)
     ELSE LET tif_time == Prefix(parts[5], 8)
          IN IF Len(parts[2]) = 0 THEN MetaDefault(tif_name, tif_time)
             ELSE IF parts[2][1] = "b" THEN Meta(tif_name, tif_time, PAN, BWD, "3m")
             ELSE IF parts[2][1] = "f" THEN Meta(tif_name, tif_time, PAN, FWD, "3m")
             ELSE IF parts[2][1] = "n" THEN Meta(tif_name, tif_time, PAN, NADIR, "2m")
             ELSE IF parts[2][1] = "m" THEN Meta(tif_name, tif_time, MSS, NADIR, "8m")
             ELSE MetaDefault(tif_name, tif_time)

TH01Rule(tif_name) ==
  LET parts == Split(tif_name, "_")
  IN IF Len(parts) < 2 THEN MetaDefault(tif_name, <<>>)
     ELSE LET tif_time == Slice(parts[2], 1, 9)
          IN IF Len(parts) < 4 \/ Len(parts[4]) = 0 \/ Len(parts) < 5
               THEN MetaDefault(tif_name, tif_time)
             ELSE LET sensor_prefix == parts[4][1]
                      angle == parts[5]
                  IN IF sensor_prefix = "S" /\ angle = <<"1">>
                       THEN Meta(tif_name, tif_time, PAN, FWD, "5m")
                     ELSE IF sensor_prefix = "S" /\ angle = <<"2">>
                       THEN Meta(tif_name, tif_time, PAN, NADIR, "5m")
                     ELSE IF sensor_prefix = "S" /\ angle = <<"3">>
                       THEN Meta(tif_name, tif_time, PAN, BWD, "5m")
                     ELSE IF sensor_prefix = "G"
                       THEN Meta(tif_name, tif_time, HIRES, NADIR, "2m")
                     ELSE IF sensor_prefix = "D"
                       THEN Meta(tif_name, tif_time, MSS, NADIR, "8m")
                     ELSE MetaDefault(tif_name, tif_time)

get_message(tif_name, sate_type) ==
  IF sate_type = GF1 THEN HyphenCodeRule(tif_name, 4, "8m", "2m")
  ELSE IF sate_type = GF2 THEN HyphenCodeRule(tif_name, 4, "4m", "1m")
  ELSE IF sate_type = GF6 THEN HyphenCodeRule(tif_name, 4, "8m", "2m")
  ELSE IF sate_type = GF7 THEN GF7Rule(tif_name)
  ELSE IF sate_type \in ZY3Types THEN ZY3Rule(tif_name)
  ELSE IF sate_type = ZY1 THEN HyphenCodeRule(tif_name, 4, "10m", "2.5m")
  ELSE IF sate_type = SV1_03 THEN HyphenCodeRule(tif_name, 1, "2m", "0.5m")
  ELSE IF sate_type = SV_2 THEN HyphenCodeRule(tif_name, 1, "2m", "0.5m")
  ELSE IF sate_type \in TH01Types THEN TH01Rule(tif_name)
  ELSE MetaDefault(tif_name, <<>>)

\* a plausible slip: only the rasters that could be opened count as present
NoType_openable(tif_message, t) ==
  \A i \in 1..Len(tif_message) : ~(tif_message[i][4] = t /\ tif_message[i][7] = TRUE)

(***************************************************************************)
(* get_lack: the missing-sensor records of one group.  tif_message is the  *)
(* sequence of the group's rows (12 columns); a LackRecord is              *)
(* <<tifs_id, sensor type, sensor angle, resolution>>.                     *)
(***************************************************************************)
\* np.sum(sensor_types == t) == 0
NoType(tif_message, t) == \A i \in 1..Len(tif_message) : tif_message[i][4] # t

\* a plausible slip: the angle column is not looked at
NoTypeAngle_ignoring_angle(tif_message, t, a) ==
  \A i \in 1..Len(tif_message) : tif_message[i][4] # t

\* np.sum((sensor_types == t) & (sensor_angles == a)) == 0
NoTypeAngle(tif_message, t, a) ==
  \A i \in 1..Len(tif_message) : ~(tif_message[i][4] = t /\ tif_message[i][5] = a)

\* if cond: lack_list.append(row)
AppendIf(lack_list, cond, row) == IF cond THEN Append(lack_list, row) ELSE lack_list

\* a plausible slip: the two resolutions are exchanged
LackTwoSensor_swapped(tif_message, tifs_id, resP, resM) ==
  LET l1 == AppendIf(<<>>, NoType(tif_message, PAN), <<tifs_id, PAN, "-", resM>>)
  IN AppendIf(l1, NoType(tif_message, MSS), <<tifs_id, MSS, "-", resP>>)

\* GF1, GF2, GF6, ZY1, SV1-03, SV-2: a panchromatic and a multispectral record
LackTwoSensor(tif_message, tifs_id, resP, resM) ==
  LET l1 == AppendIf(<<>>, NoType(tif_message, PAN), <<tifs_id, PAN, "-", resP>>)
  IN AppendIf(l1, NoType(tif_message, MSS), <<tifs_id, MSS, "-", resM>>)

\* a plausible slip: the missing multispectral file of GF7 is labelled "fore"
LackGF7_fore_multispectral(tif_message, tifs_id) ==
  LET has_p_back == NoTypeAngle(tif_message, PAN, BWD)
      has_p_front == NoTypeAngle(tif_message, PAN, FWD)
      l1 == AppendIf(<<>>, has_p_back, <<tifs_id, PAN, BWD, "0.8m">>)
      l2 == AppendIf(l1, has_p_front, <<tifs_id, PAN, FWD, "0.8m">>)
  IN AppendIf(l2, NoType(tif_message, MSS), <<tifs_id, MSS, FWD, "3.2m">>)

\* GF7 (lines 486-495)
LackGF7(tif_message, tifs_id) ==
  LET has_p_back == NoTypeAngle(tif_message, PAN, BWD)
      has_p_front == NoTypeAngle(tif_message, PAN, FWD)
      l1 == AppendIf(<<>>, has_p_back, <<tifs_id, PAN, BWD, "0.8m">>)
      l2 == AppendIf(l1, has_p_front, <<tifs_id, PAN, FWD, "0.8m">>)
  IN AppendIf(l2, NoType(tif_message, MSS), <<tifs_id, MSS, BWD, "3.2m">>)

\* a plausible slip: the missing nadir view is labelled as what it is
LackZY3_nadir_label(tif_message, tifs_id) ==
  LET has_p_back == NoTypeAngle(tif_message, PAN, BWD)
      has_p_front == NoTypeAngle(tif_message, PAN, FWD)
      has_p_down == NoTypeAngle(tif_message, PAN, NADIR)
      l1 == AppendIf(<<>>, has_p_back, <<tifs_id, PAN, BWD, "3m">>)
      l2 == AppendIf(l1, has_p_front, <<tifs_id, PAN, FWD, "3m">>)
      l3 == AppendIf(l2, has_p_down, <<tifs_id, PAN, NADIR, "2m">>)
  IN AppendIf(l3, NoType(tif_message, MSS), <<tifs_id, MSS, NADIR, "8m">>)

\* zy303a, zy302a (lines 497-509); the missing nadir view is reported as "fore"
LackZY3(tif_message, tifs_id) ==
  LET has_p_back == NoTypeAngle(tif_message, PAN, BWD)
      has_p_front == NoTypeAngle(tif_message, PAN, FWD)
      has_p_down == NoTypeAngle(tif_message, PAN, NADIR)
      l1 == AppendIf(<<>>, has_p_back, <<tifs_id, PAN, BWD, "3m">>)
      l2 == AppendIf(l1, has_p_front, <<tifs_id, PAN, FWD, "3m">>)
      l3 == AppendIf(l2, has_p_down, <<tifs_id, PAN, FWD, "2m">>)
  IN AppendIf(l3, NoType(tif_message, MSS), <<tifs_id, MSS, NADIR, "8m">>)

LackTH01(tif_message, tifs_id) ==
  LET has_p_front == NoTypeAngle(tif_message, PAN, FWD)
      has_p_down == NoTypeAngle(tif_message, PAN, NADIR)
      has_p_back == NoTypeAngle(tif_message, PAN, BWD)
      l1 == AppendIf(<<>>, has_p_front, <<tifs_id, PAN, FWD, "5m">>)
      l2 == AppendIf(l1, has_p_down, <<tifs_id, PAN, NADIR, "5m">>)
      l3 == AppendIf(l2, has_p_back, <<tifs_id, PAN, BWD, "5m">>)
      l4 == AppendIf(l3, NoType(tif_message, MSS), <<tifs_id, MSS, NADIR, "8m">>)
  IN AppendIf(l4, NoType(tif_message, HIRES), <<tifs_id, HIRES, NADIR, "2m">>)

\* the id column of a group's LackRecords: tif_message[0, 0]
LackId(tif_message) == tif_message[1][1]

get_lack(tif_message, tif_type) ==
  IF Len(tif_message) = 0 THEN <<>>
  ELSE LET tifs_id == LackId(tif_message)
       IN IF tif_type = GF1 THEN LackTwoSensor(tif_message, tifs_id, "2m", "8m")
          ELSE IF tif_type = GF2 THEN LackTwoSensor(tif_message, tifs_id, "1m", "4m")
          ELSE IF tif_type = GF6 THEN LackTwoSensor(tif_message, tifs_id, "2m", "8m")
          ELSE IF tif_type = GF7 THEN LackGF7(tif_message, tifs_id)
          ELSE IF tif_type \in ZY3Types THEN LackZY3(tif_message, tifs_id)
          ELSE IF tif_type = ZY1 THEN LackTwoSensor(tif_message, tifs_id, "2.5m", "10m")
          ELSE IF tif_type \in SVTypes THEN LackTwoSensor(tif_message, tifs_id, "0.5m", "2m")
          ELSE IF tif_type \in TH01Types THEN LackTH01(tif_message, tifs_id)
          ELSE <<>>

(***************************************************************************)
(* Paths.  A path is <<directory, file name>>; the directory "gone" stands *)
(* for a path that does not exist.                                         *)
(***************************************************************************)
PathName(path) == path[2]

\* Path(path).exists()
Exists(path) == path[1] # "gone"

\* Path(tif_path).stem
StemOf(path) == PathStem(PathName(path))

(***************************************************************************)
(* preprocess_tif: two-level grouping by satellite type, then id.          *)
(* group_dict is the defaultdict of defaultdicts, in insertion order: a    *)
(* sequence of [sate_type, ids], ids a sequence of [tif_id, items], items  *)
(* a sequence of <<tif_name, tif_path>>.                                   *)
(***************************************************************************)
\* line 140: the satellite type of a stem
SateTypeOf(tif_name) == Split(tif_name, "_")[1]

\* id_groups[tif_id].append(item)
InsertId(ids, tif_id, item) ==
  IF \E j \in 1..Len(ids) : ids[j].tif_id = tif_id
  THEN [j \in 1..Len(ids) |->
          IF ids[j].tif_id = tif_id
          THEN [ids[j] EXCEPT !.items = Append(@, item)]
          ELSE ids[j]]
  ELSE Append(ids, [tif_id |-> tif_id, items |-> <<item>>])

\* a plausible slip: one level only, the satellite type of the key is not compared
InsertGroup_ignoring_type(group_dict, sate_type, tif_id, item) ==
  IF Len(group_dict) > 0
  THEN [t \in 1..Len(group_dict) |->
          IF t = 1
          THEN [group_dict[t] EXCEPT !.ids = InsertId(@, tif_id, item)]
          ELSE group_dict[t]]
  ELSE Append(group_dict,
              [sate_type |-> sate_type, ids |-> InsertId(<<>>, tif_id, item)])

\* group_dict[sate_type][tif_id].append(item)
InsertGroup(group_dict, sate_type, tif_id, item) ==
  IF \E t \in 1..Len(group_dict) : group_dict[t].sate_type = sate_type
  THEN [t \in 1..Len(group_dict) |->
          IF group_dict[t].sate_type = sate_type
          THEN [group_dict[t] EXCEPT !.ids = InsertId(@, tif_id, item)]
          ELSE group_dict[t]]
  ELSE Append(group_dict,
              [sate_type |-> sate_type, ids |-> InsertId(<<>>, tif_id, item)])

\* lines 146-148: the grouping loop from file i on; a raise of get_tif_id leaves it
RECURSIVE GroupFrom(_, _, _)
GroupFrom(tif_names, i, group_dict) ==
  IF i > Len(tif_names) THEN Return(group_dict)
  ELSE LET tif_name == StemOf(tif_names[i])
           sate_type == SateTypeOf(tif_name)
           tif_id == get_tif_id(tif_name, sate_type)
       IN IF tif_id.exc # "" THEN Raise(tif_id.exc)
          ELSE GroupFrom(tif_names, i + 1,
                 InsertGroup(group_dict, sate_type, tif_id.val, <<tif_name, tif_names[i]>>))

\* lines 154-161: one entry per (sate_type, tif_id), types then ids in insertion order
RECURSIVE FlattenFrom(_, _)
FlattenFrom(group_dict, t) ==
  IF t > Len(group_dict) THEN <<>>
  ELSE [j \in 1..Len(group_dict[t].ids) |->
          [sate_type |-> group_dict[t].sate_type,
           names |-> [k \in 1..Len(group_dict[t].ids[j].items) |->
                        group_dict[t].ids[j].items[k][1]],
           paths |-> [k \in 1..Len(group_dict[t].ids[j].items) |->
                        group_dict[t].ids[j].items[k][2]]]]
       \o FlattenFrom(group_dict, t + 1)

\* the three parallel lists the function returns
preprocess_tif(tif_names) ==
  IF \E i \in 1..Len(tif_names) : ~Exists(tif_names[i]) THEN Raise("FileNotFoundError")
  ELSE LET g == GroupFrom(tif_names, 1, <<>>)
       IN IF g.exc # "" THEN g
          ELSE LET flat == FlattenFrom(g.val, 1)
               IN Return([tif_satetypes |-> [n \in 1..Len(flat) |-> flat[n].sate_type],
                          tifs |-> [n \in 1..Len(flat) |-> flat[n].names],
                          tifs_path |-> [n \in 1..Len(flat) |-> flat[n].paths]])

(***************************************************************************)
(* get_quality, part 1: the raster.  What the decoding library answers for *)
(* a path is a raster descriptor                                           *)
(*   [open, x_size, y_size, band_count, zeros]                             *)
(* open = "ok" (a dataset), "null" (gdal.Open returns None) or "raise"     *)
(* (gdal.Open raises, the case gdal.UseExceptions() enables); zeros is the *)
(* number of zero samples of each band, the first zeros pixels in          *)
(* row-major order.  A dataset without bands gives no array to read.       *)
(***************************************************************************)
block_size == 512

Clamp(v, lo, hi) == IF v < lo THEN lo ELSE IF v > hi THEN hi ELSE v

\* len(range(0, size, block_size))
NumSteps(size) == (size + block_size - 1) \div block_size

NumTiles(raster) == NumSteps(raster.y_size) * NumSteps(raster.x_size)

\* a plausible slip: the last tile of a row or column is not clipped
TileAt_unclipped(raster, k) ==
  LET nx == NumSteps(raster.x_size)
  IN [x |-> ((k - 1) % nx) * block_size, y |-> ((k - 1) \div nx) * block_size,
      current_x_size |-> block_size, current_y_size |-> block_size]

\* the k-th tile of the nested loops (k from 1): [x, y, current_x_size, current_y_size]
TileAt(raster, k) ==
  LET nx == NumSteps(raster.x_size)
      x == ((k - 1) % nx) * block_size
      y == ((k - 1) \div nx) * block_size
  IN [x |-> x, y |-> y,
      current_x_size |-> Min(block_size, raster.x_size - x),
      current_y_size |-> Min(block_size, raster.y_size - y)]

\* zero pixels of one band inside the window (x, y, w, h) of the raster
ZerosInWindow(raster, x, y, w, h) ==
  LET fullRows == raster.zeros \div raster.x_size
      rest == raster.zeros % raster.x_size
      nFull == Clamp(fullRows - y, 0, h)
      partial == IF y <= fullRows /\ fullRows < y + h THEN Clamp(rest - x, 0, w) ELSE 0
  IN nFull * w + partial

\* np.sum(data_block == 0) of data.ReadAsArray(x, y, current_x_size, current_y_size)
block_bad(raster, tile) ==
  raster.band_count
    * ZerosInWindow(raster, tile.x, tile.y, tile.current_x_size, tile.current_y_size)

\* np.prod(data_block.shape)
block_total(raster, tile) ==
  raster.band_count * tile.current_y_size * tile.current_x_size

\* a plausible slip: the threshold is inclusive
IsBad_inclusive(total_bad, total_pixels) ==
  IF total_pixels > 0 THEN 10 * total_bad >= 3 * total_pixels ELSE FALSE

\* line 363; the quotient is compared as the exact ratio (sample counts far below 2^51)
IsBad(total_bad, total_pixels) ==
  IF total_pixels > 0 THEN 10 * total_bad > 3 * total_pixels ELSE FALSE

\* the read of tile k fails (returns None or raises): the dataset has no band, or
\* the library fails at the tile numbered fail_at
ReadFails(raster, k, fail_at) == raster.band_count < 1 \/ k = fail_at

\* lines 345-360 from tile k on
RECURSIVE ScanFrom(_, _, _, _, _)
ScanFrom(raster, k, total_bad, total_pixels, fail_at) ==
  IF k > NumTiles(raster)
  THEN [failed |-> FALSE, total_bad |-> total_bad, total_pixels |-> total_pixels]
  ELSE IF ReadFails(raster, k, fail_at)
  THEN [failed |-> TRUE, total_bad |-> total_bad, total_pixels |-> total_pixels]
  ELSE ScanFrom(raster, k + 1,
                total_bad + block_bad(raster, TileAt(raster, k)),
                total_pixels + block_total(raster, TileAt(raster, k)), fail_at)

\* a plausible slip: a raise of gdal.Open is handled like a None
AfterOpen_raise_as_null(raster) ==
  IF raster.open = "ok" THEN [is_open |-> TRUE, is_loss |-> FALSE, data |-> "dataset"]
  ELSE [is_open |-> FALSE, is_loss |-> FALSE, data |-> "None"]

\* lines 330-332 and 370-375: the locals after data = gdal.Open(tif_path)
AfterOpen(raster) ==
  IF raster.open = "raise" THEN [is_open |-> FALSE, is_loss |-> TRUE, data |-> "None"]
  ELSE IF raster.open = "null" THEN [is_open |-> FALSE, is_loss |-> FALSE, data |-> "None"]
  ELSE [is_open |-> TRUE, is_loss |-> FALSE, data |-> "dataset"]

\* lines 322-379: <<is_open, is_bad, is_loss>>
RasterFlags(raster, fail_at) ==
  IF AfterOpen(raster).data = "None"
  THEN <<AfterOpen(raster).is_open, FALSE, AfterOpen(raster).is_loss>>
  ELSE LET scan == ScanFrom(raster, 1, 0, 0, fail_at)
       IN IF scan.failed THEN <<TRUE, FALSE, TRUE>>
          ELSE <<TRUE, IsBad(scan.total_bad, scan.total_pixels), raster.band_count < 1>>

(***************************************************************************)
(* get_quality, part 2: the sidecar files.  files is the set of file names *)
(* below source_path; search is how the recursive search ends: "ok",       *)
(* "PermissionError_rpc" (raised while line 388 runs), "PermissionError_rpb"*)
(* (raised while line 389 runs) or "OSError" (any failure that is no       *)
(* PermissionError: it is not caught).                                     *)
(***************************************************************************)
DotRpc == <<".", "r", "p", "c">>
DotRpb == <<".", "r", "p", "b">>
UnderRpcTxt == <<"_", "r", "p", "c", ".", "t", "x", "t">>
UnderRpc == <<"_", "r", "p", "c">>
UnderRpb == <<"_", "r", "p", "b">>

\* source_dir.rglob("*.rpc") + source_dir.rglob("*_rpc.txt")
rpc_files(files, search) ==
  IF search \in {"PermissionError_rpc"} THEN {}
  ELSE {f \in files : EndsWith(f, DotRpc) \/ EndsWith(f, UnderRpcTxt)}

\* source_dir.rglob("*.rpb")
rpb_files(files, search) ==
  IF search \in {"PermissionError_rpc", "PermissionError_rpb"} THEN {}
  ELSE {f \in files : EndsWith(f, DotRpb)}

\* a plausible slip: the sidecar's stem only has to start with the raster's stem
exist_rpc_prefix(files, search, tif_stem) ==
  \E rpc_file \in rpc_files(files, search) :
    Prefix(PathStem(rpc_file), Len(tif_stem)) = tif_stem

\* lines 394-407
exist_rpc(files, search, tif_stem) ==
  \E rpc_file \in rpc_files(files, search) :
    PathStem(rpc_file) = tif_stem \/ PathStem(rpc_file) = tif_stem \o UnderRpc

\* lines 410-421
exist_rpb(files, search, tif_stem) ==
  \E rpb_file \in rpb_files(files, search) :
    PathStem(rpb_file) = tif_stem \/ PathStem(rpb_file) = tif_stem \o UnderRpb

\* the whole function: [exc, val = <<is_open, is_bad, is_loss, exist_rpc, exist_rpb>>]
get_quality(files, search, tif_path, raster, fail_at) ==
  IF search = "OSError" THEN Raise("OSError")
  ELSE Return(RasterFlags(raster, fail_at)
              \o <<exist_rpc(files, search, StemOf(tif_path)),
                   exist_rpb(files, search, StemOf(tif_path))>>)

(***************************************************************************)
(* get_tif, get_tifs, main.  env is what the machine answers during the    *)
(* call: [files, search, raster, fail_at], search, raster and fail_at      *)
(* functions of the path.                                                  *)
(***************************************************************************)
\* lines 437-447 from member i on: the rows of one group, or the exception
RECURSIVE GetTifFrom(_, _, _, _, _, _)
GetTifFrom(tifs, tifs_path, tif_type, env, i, tifs_message) ==
  IF i > Len(tifs) THEN Return(tifs_message)
  ELSE LET meta_msg == get_message(tifs[i], tif_type)
           quality_msg == get_quality(env.files, env.search[tifs_path[i]], tifs_path[i],
                                      env.raster[tifs_path[i]], env.fail_at[tifs_path[i]])
       IN IF quality_msg.exc # "" THEN Raise(quality_msg.exc)
          ELSE GetTifFrom(tifs, tifs_path, tif_type, env, i + 1,
                          Append(tifs_message, meta_msg \o quality_msg.val \o <<"-">>))

get_tif(tifs, tifs_path, tif_type, env) == GetTifFrom(tifs, tifs_path, tif_type, env, 1, <<>>)

\* a plausible slip: the try block around the loop, so that a failing group ends it
RECURSIVE GetTifsFrom_stop_at_failure(_, _, _, _, _)
GetTifsFrom_stop_at_failure(groups, env, idx, all_messages, all_lacks) ==
  IF idx > Len(groups.tifs)
  THEN [merged_msg |-> all_messages, merged_lack |-> all_lacks]
  ELSE LET group_msg == get_tif(groups.tifs[idx], groups.tifs_path[idx],
                                groups.tif_satetypes[idx], env)
       IN IF group_msg.exc # ""
          THEN [merged_msg |-> all_messages, merged_lack |-> all_lacks]
          ELSE GetTifsFrom_stop_at_failure(groups, env, idx + 1,
                           all_messages \o group_msg.val,
                           all_lacks \o get_lack(group_msg.val, groups.tif_satetypes[idx]))

\* lines 557-572 from group idx on; all_messages and all_lacks hold the rows already
\* stacked (np.vstack of the collected arrays keeps their order)
RECURSIVE GetTifsFrom(_, _, _, _, _)
GetTifsFrom(groups, env, idx, all_messages, all_lacks) ==
  IF idx > Len(groups.tifs)
  THEN [merged_msg |-> all_messages, merged_lack |-> all_lacks]
  ELSE LET group_msg == get_tif(groups.tifs[idx], groups.tifs_path[idx],
                                groups.tif_satetypes[idx], env)
       IN IF group_msg.exc # ""
          THEN GetTifsFrom(groups, env, idx + 1, all_messages, all_lacks)
          ELSE GetTifsFrom(groups, env, idx + 1,
                           all_messages \o group_msg.val,
                           all_lacks \o get_lack(group_msg.val, groups.tif_satetypes[idx]))

get_tifs(groups, env) == GetTifsFrom(groups, env, 1, <<>>, <<>>)

\* lines 650-652
main(img_names, env) ==
  LET pre == preprocess_tif(img_names)
  IN IF pre.exc # "" THEN Raise(pre.exc) ELSE Return(get_tifs(pre.val, env))

(***************************************************************************)
(* State.  Four entry points are run: Controller_check_main (a batch run   *)
(* over a folder), main (on a list of paths), get_tif followed by get_lack *)
(* (on one group), and get_quality (on one raster, tile by tile).          *)
(***************************************************************************)
VARIABLES
  pc,           \* where the running entry point stands
  img_names,    \* main: the list of paths it is called with
  env,          \* what the machine answers during the call (see get_tif)
  grouped,      \* main: what preprocess_tif returned or raised
  ret,          \* main: what the call returned or raised
  tif_type,     \* get_lack: the satellite type of the group
  tifs,         \* get_tif: the stems of the group
  tif_message,  \* get_tif: the rows of the group
  tifs_lack,    \* get_lack: the LackRecords of the group
  raster,       \* get_quality: the raster behind tif_path
  tif_path,     \* get_quality: the path assessed
  files,        \* get_quality: the file names below source_path
  search,       \* get_quality: how the sidecar search ends
  q,            \* get_quality: its locals
  quality,      \* get_quality: what the call returned or raised
  root,         \* batch: what img_path is ("missing", "file", "unreadable", "dir")
  disk,         \* batch: the files below img_path, in the order rglob meets them
  run,          \* batch: the locals of Controller_check_main and validate_tif_files
  handles,      \* batch: the paths whose dataset is open
  message_csv,  \* batch: message.csv, [exists, rows]
  lack_csv,     \* batch: lack.csv, [exists, rows]
  diagnostic    \* batch: the exception the run ended with, "" when none

vars == <<pc, img_names, env, grouped, ret, tif_type, tifs, tif_message, tifs_lack,
          raster, tif_path, files, search, q, quality,
          root, disk, run, handles, message_csv, lack_csv, diagnostic>>

mainVars == <<img_names, env, grouped, ret>>
lackVars == <<tif_type, tifs, tif_message, tifs_lack>>
qualityVars == <<raster, tif_path, files, search, q, quality>>
batchVars == <<root, disk, run, handles, message_csv, lack_csv, diagnostic>>

None == [exc |-> "unset", val |-> <<>>]

\* a report file that is not there, and one that holds rows
NoFile == [exists |-> FALSE, rows |-> <<>>]
File(rows) == [exists |-> TRUE, rows |-> rows]

MainIdle == img_names = <<>> /\ env = <<>> /\ grouped = None /\ ret = None
LackIdle == tif_type = <<>> /\ tifs = <<>> /\ tif_message = <<>> /\ tifs_lack = <<>>
QualityIdle ==
  /\ raster = <<>> /\ tif_path = <<>> /\ files = {} /\ search = "ok"
  /\ q = <<>> /\ quality = None
BatchIdle ==
  /\ root = "dir" /\ disk = <<>> /\ run = <<>> /\ handles = {}
  /\ message_csv = NoFile /\ lack_csv = NoFile /\ diagnostic = ""

(***************************************************************************)
(* Bounds and input sets.                                                  *)
(***************************************************************************)
MaxFiles == 2
MaxGroup == 3

Range(f) == {f[i] : i \in DOMAIN f}

\* the sequences of at most n distinct elements of S
RECURSIVE DistinctSeqs(_, _)
DistinctSeqs(S, n) ==
  IF n = 0 THEN {<<>>}
  ELSE LET shorter == DistinctSeqs(S, n - 1)
           longest == {r \in shorter : Len(r) = n - 1}
       IN shorter \cup {Append(p[1], p[2]) : p \in {pp \in longest \X S : pp[2] \notin Range(pp[1])}}

\* the sequences of 1..n elements of S
SeqsUpTo(S, n) == UNION {[1..m -> S] : m \in 1..n}

U == <<"_">>
DotTif == <<".", "t", "i", "f">>
DotTiff == <<".", "t", "i", "f", "f">>
\* "_s_e_n_d": sensor, longitude, latitude and date segments of a GF/ZY1 name
Seg4 == <<"_", "s", "_", "e", "_", "n", "_", "d">>
foo == <<"f", "o", "o">>
foo_x == <<"f", "o", "o", "_", "x">>
foo_y == <<"f", "o", "o", "_", "y">>

\* the paths main is called with
MainPaths ==
  { <<"d1", GF1 \o Seg4 \o <<"_", "A", "-", "P">> \o DotTif>>,
    <<"d1", GF1 \o Seg4 \o <<"_", "A", "-", "M">> \o DotTif>>,
    <<"d1", GF1 \o Seg4 \o <<"_", "B", "-", "P">> \o DotTif>>,
    <<"d1", GF2 \o Seg4 \o <<"_", "A", "-", "P">> \o DotTif>>,
    <<"d1", GF1 \o <<"_", "d", "_", "A", "_", "P">> \o DotTif>>,
    <<"d1", GF7 \o Seg4 \o <<"_", "B", "_", "A">> \o DotTif>>,
    <<"d1", zy303a \o <<"_", "n", "_", "A", "_", "B", "_", "d">> \o DotTif>>,
    <<"d1", zy303a \o <<"_", "n">> \o DotTif>>,
    <<"d1", SV_2 \o <<"_", "d", "_", "A", "_", "x", "-", "P">> \o DotTif>>,
    <<"d1", TH01_01 \o <<"_", "T", "_", "x", "_", "S", "_", "1", "_", "A", "_", "B">> \o DotTif>>,
    <<"d1", TH01_01 \o DotTif>>,
    <<"d1", foo_x \o DotTif>>,
    <<"d2", foo_x \o DotTif>>,
    <<"d1", foo_x \o DotTiff>>,
    <<"d1", foo_y \o DotTif>>,
    <<"d1", <<"_", "x">> \o DotTif>>,
    <<"d1", <<" ">> \o DotTif>>,
    <<"d1", <<" ", "_", "x">> \o DotTif>>,
    <<"gone", foo_x \o DotTif>> }

\* rasters of a call of main
GoodRaster == [open |-> "ok", x_size |-> 10, y_size |-> 10, band_count |-> 1, zeros |-> 0]
ClosedRaster == [open |-> "raise", x_size |-> 0, y_size |-> 0, band_count |-> 0, zeros |-> 0]
MainRasters == {GoodRaster, ClosedRaster}

\* the environments of a call on names: one raster kind, and at most one path
\* whose sidecar search fails with an error the code does not catch
MainEnvs(names) ==
  { [files |-> {},
     search |-> [p \in Range(names) |-> IF fault > 0 /\ p = names[fault] THEN "OSError" ELSE "ok"],
     raster |-> [p \in Range(names) |-> r],
     fail_at |-> [p \in Range(names) |-> 0]] :
    fault \in 0..Len(names), r \in MainRasters }

(***************************************************************************)
(* A call of main(img_names, img_path).                                    *)
(***************************************************************************)
MainInit ==
  /\ pc = "main"
  /\ img_names \in DistinctSeqs(MainPaths, MaxFiles) \ {<<>>}
  /\ env \in MainEnvs(img_names)
  /\ grouped = None
  /\ ret = None
  /\ LackIdle /\ QualityIdle /\ BatchIdle

\* line 650
main_preprocess ==
  /\ pc = "main"
  /\ grouped' = preprocess_tif(img_names)
  /\ pc' = IF grouped'.exc # "" THEN "raised" ELSE "get_tifs"
  /\ ret' = IF grouped'.exc # "" THEN Raise(grouped'.exc) ELSE ret
  /\ UNCHANGED <<img_names, env, lackVars, qualityVars, batchVars>>

\* lines 651-652
main_get_tifs ==
  /\ pc = "get_tifs"
  /\ ret' = Return(get_tifs(grouped.val, env))
  /\ pc' = "returned"
  /\ UNCHANGED <<img_names, env, grouped, lackVars, qualityVars, batchVars>>

MainNext == main_preprocess \/ main_get_tifs

SpecMain == MainInit /\ [][MainNext]_vars

(***************************************************************************)
(* get_tif and get_lack on one group.                                      *)
(***************************************************************************)
\* stems of one satellite type: one per sensor code the type's rule reads, one with
\* a code the rule does not know, and names shorter than the rule expects
LackStems(t) ==
  IF t \in TwoSensorIdTypes
    THEN { t \o Seg4 \o <<"_", "A", "-", "P">>,
           t \o Seg4 \o <<"_", "A", "-", "M">>,
           t \o Seg4 \o <<"_", "A", "-", "X">>,
           t \o <<"_", "d", "_", "A", "_", "P">> }
  ELSE IF t \in SVTypes
    THEN { t \o <<"_", "d", "_", "A", "_", "x", "-", "P">>,
           t \o <<"_", "d", "_", "A", "_", "x", "-", "M">>,
           t \o <<"_", "d", "_", "A", "_", "x">>,
           t }
  ELSE IF t = GF7
    THEN { t \o Seg4 \o <<"_", "M", "_", "A">>,
           t \o Seg4 \o <<"_", "B", "_", "A">>,
           t \o Seg4 \o <<"_", "F", "_", "A">>,
           t \o Seg4 \o <<"_", "X", "_", "A">>,
           t \o <<"_", "s", "_", "A">> }
  ELSE IF t \in ZY3Types
    THEN { t \o <<"_", c, "_", "A", "_", "B", "_", "d">> : c \in {"b", "f", "n", "m", "x"} }
         \cup { t \o <<"_", "n">> }
  ELSE IF t \in TH01Types
    THEN { t \o <<"_", "T", "_", "x", "_", "S", "_", a, "_", "A", "_", "B">> : a \in {"1", "2", "3", "9"} }
         \cup { t \o <<"_", "T", "_", "x", "_", c, "_", "1", "_", "A", "_", "B">> : c \in {"G", "D"} }
         \cup { t \o <<"_", "T", "_", "x", "_", "S">> }
  ELSE { foo_x, foo }

LackTypes == KnownTypes \cup {foo}

\* the path of member i of the group
GroupPaths(names) == [i \in 1..Len(names) |-> <<"d1", names[i] \o DotTif>>]

\* every raster opens and every search succeeds
CalmEnv(paths) ==
  [files |-> {},
   search |-> [p \in Range(paths) |-> "ok"],
   raster |-> [p \in Range(paths) |-> GoodRaster],
   fail_at |-> [p \in Range(paths) |-> 0]]

LackInit ==
  /\ pc = "get_tif"
  /\ tif_type \in LackTypes
  /\ tifs \in {<<>>} \cup SeqsUpTo(LackStems(tif_type), MaxGroup)
  /\ tif_message = <<>>
  /\ tifs_lack = <<>>
  /\ MainIdle /\ QualityIdle /\ BatchIdle

\* line 560
lack_get_tif ==
  /\ pc = "get_tif"
  /\ tif_message' = get_tif(tifs, GroupPaths(tifs), tif_type, CalmEnv(GroupPaths(tifs))).val
  /\ pc' = "get_lack"
  /\ UNCHANGED <<tif_type, tifs, tifs_lack, mainVars, qualityVars, batchVars>>

\* line 561
lack_get_lack ==
  /\ pc = "get_lack"
  /\ tifs_lack' = get_lack(tif_message, tif_type)
  /\ pc' = "lack_done"
  /\ UNCHANGED <<tif_type, tifs, tif_message, mainVars, qualityVars, batchVars>>

LackNext == lack_get_tif \/ lack_get_lack

SpecLack == LackInit /\ [][LackNext]_vars

(***************************************************************************)
(* Grouping claims (SpecMain).                                             *)
(***************************************************************************)
Grouped == pc \in {"get_tifs", "returned"} /\ grouped.exc = ""

\* the places <<group, member>> at which path p stands in the returned lists
Positions(G, p) ==
  {gk \in UNION {{<<g, k>> : k \in 1..Len(G.tifs_path[g])} : g \in 1..Len(G.tifs_path)} :
     G.tifs_path[gk[1]][gk[2]] = p}

GroupOfPath(G, p) == CHOOSE g \in 1..Len(G.tifs_path) : \E k \in 1..Len(G.tifs_path[g]) : G.tifs_path[g][k] = p

TypeOfPath(p) == SateTypeOf(StemOf(p))
IdOfPath(p) == get_tif_id(StemOf(p), TypeOfPath(p))

\* C1: whenever preprocess_tif returns, the returned groups are the equivalence
\* classes of the input under equal (satellite type, acquisition id): the three
\* lists are parallel, no group is empty, every input path stands at exactly one
\* place, every member is an input path listed with its stem and its group's
\* type, and two paths share a group exactly when they share type and id.
C1_GroupsAreEquivalenceClasses ==
  Grouped =>
    LET G == grouped.val
    IN /\ Len(G.tifs) = Len(G.tifs_path) /\ Len(G.tif_satetypes) = Len(G.tifs_path)
       /\ \A g \in 1..Len(G.tifs_path) :
            /\ Len(G.tifs_path[g]) >= 1
            /\ Len(G.tifs[g]) = Len(G.tifs_path[g])
            /\ \A k \in 1..Len(G.tifs_path[g]) :
                 /\ G.tifs_path[g][k] \in Range(img_names)
                 /\ G.tifs[g][k] = StemOf(G.tifs_path[g][k])
                 /\ G.tif_satetypes[g] = TypeOfPath(G.tifs_path[g][k])
       /\ \A p \in Range(img_names) : Cardinality(Positions(G, p)) = 1
       /\ \A p1, p2 \in Range(img_names) :
            (GroupOfPath(G, p1) = GroupOfPath(G, p2))
              <=> (TypeOfPath(p1) = TypeOfPath(p2) /\ IdOfPath(p1).val = IdOfPath(p2).val)

\* two files with different stems share a group, and the input has another shape too
C1_Witness ==
  /\ Grouped
  /\ \E g \in 1..Len(grouped.val.tifs) :
       /\ Len(grouped.val.tifs[g]) = 2
       /\ grouped.val.tifs[g][1] # grouped.val.tifs[g][2]

KnownType(t) == t \in KnownTypes

\* C9 as stated: in the returned groups every group of an unknown satellite type
\* has exactly one member, and every input file of an unknown type is a member of
\* a group.
C9_UnknownTypeGroupsAreSingletons ==
  Grouped =>
    LET G == grouped.val
    IN /\ \A g \in 1..Len(G.tifs) : ~KnownType(G.tif_satetypes[g]) => Len(G.tifs[g]) = 1
       /\ \A p \in Range(img_names) : ~KnownType(TypeOfPath(p)) => Positions(G, p) # {}

\* C9 amended: every input file of an unknown type has its full stem as id, and in
\* the returned groups it stands in exactly one group, whose members are the
\* input paths that have the same stem, in input order.
C9_UnknownTypeGroupsShareOneStem ==
  Grouped =>
    LET G == grouped.val
    IN \A p \in Range(img_names) :
         ~KnownType(TypeOfPath(p)) =>
           /\ IdOfPath(p) = Return(StemOf(p))
           /\ Cardinality(Positions(G, p)) = 1
           /\ G.tifs_path[GroupOfPath(G, p)]
                = SelectSeq(img_names, LAMBDA r : StemOf(r) = StemOf(p))

\* two unknown-type files of different stems, grouped apart
C9_Witness ==
  /\ Grouped
  /\ Len(img_names) = 2
  /\ \A i \in 1..2 : ~KnownType(TypeOfPath(img_names[i]))
  /\ TypeOfPath(img_names[1]) = TypeOfPath(img_names[2])
  /\ StemOf(img_names[1]) # StemOf(img_names[2])
  /\ Len(grouped.val.tifs) = 2

\* C10 as stated: for a list of existing paths preprocess_tif returns, whatever the
\* stems look like.
C10_GroupingNeverAborts ==
  (pc # "main" /\ \A i \in 1..Len(img_names) : Exists(img_names[i])) => grouped.exc = ""

\* C5 as stated: every LackRecord of the result carries the acquisition id of one of
\* the groups, the value get_tif_id gives for the group's members.
C5_LackIdIsAcquisitionId ==
  (pc = "returned" /\ ret.exc = "") =>
    \A n \in 1..Len(ret.val.merged_lack) :
      \E g \in 1..Len(grouped.val.tifs) :
        ret.val.merged_lack[n][1]
          = get_tif_id(grouped.val.tifs[g][1], grouped.val.tif_satetypes[g]).val

(***************************************************************************)
(* Completeness claims (SpecLack).                                         *)
(***************************************************************************)
LackDone == pc = "lack_done"

AnyAngle == "any"

\* the required combinations of each family, as the specification lists them
\* (zy303a/zy302a: the combinations its metadata rule can produce)
RequiredCombos(t) ==
  IF t \in {GF1, GF2, GF6, ZY1, SV1_03, SV_2}
    THEN {[st |-> PAN, angle |-> AnyAngle], [st |-> MSS, angle |-> AnyAngle]}
  ELSE IF t = GF7
    THEN {[st |-> PAN, angle |-> BWD], [st |-> PAN, angle |-> FWD], [st |-> MSS, angle |-> AnyAngle]}
  ELSE IF t \in TH01Types
    THEN {[st |-> PAN, angle |-> FWD], [st |-> PAN, angle |-> NADIR],
          [st |-> PAN, angle |-> BWD], [st |-> MSS, angle |-> AnyAngle],
          [st |-> HIRES, angle |-> AnyAngle]}
  ELSE IF t \in ZY3Types
    THEN {[st |-> PAN, angle |-> BWD], [st |-> PAN, angle |-> FWD],
          [st |-> PAN, angle |-> NADIR], [st |-> MSS, angle |-> AnyAngle]}
  ELSE {}

\* a metadata row (columns 4 and 5) matches a combination
Matches(row, c) == row[4] = c.st /\ (c.angle = AnyAngle \/ row[5] = c.angle)

Unmatched(rows, c) == \A i \in 1..Len(rows) : ~Matches(rows[i], c)

\* the LackRecords (columns 2 and 3) that name a combination
LacksFor(lacks, c) ==
  {n \in 1..Len(lacks) : lacks[n][2] = c.st /\ (c.angle = AnyAngle \/ lacks[n][3] = c.angle)}

\* the resolutions the metadata rule of family t gives to files of a combination
NominalRes(t, c) ==
  {get_message(st, t)[6] : st \in {x \in LackStems(t) : Matches(get_message(x, t), c)}}

\* C3: for a known family and a non-empty group, get_lack returns as many
\* LackRecords as there are required combinations no row matches; for the
\* families the specification lists, an unmatched combination has exactly one
\* LackRecord, with the group's id and the family's nominal resolution, and a
\* matched combination has none.
C3_OneLackPerUnmatchedCombination ==
  (LackDone /\ tif_type \in KnownTypes /\ Len(tif_message) >= 1) =>
    /\ Len(tifs_lack)
         = Cardinality({c \in RequiredCombos(tif_type) : Unmatched(tif_message, c)})
    /\ tif_type \notin ZY3Types =>
         \A c \in RequiredCombos(tif_type) :
           IF Unmatched(tif_message, c)
           THEN /\ Cardinality(LacksFor(tifs_lack, c)) = 1
                /\ Cardinality(NominalRes(tif_type, c)) = 1
                /\ \A n \in LacksFor(tifs_lack, c) :
                     /\ tifs_lack[n][4] \in NominalRes(tif_type, c)
                     /\ tifs_lack[n][1] = LackId(tif_message)
           ELSE LacksFor(tifs_lack, c) = {}

\* a GF7 group with the aft panchromatic and the multispectral file: only the
\* fore panchromatic view is reported
C3_Witness ==
  /\ LackDone
  /\ tif_type = GF7
  /\ Len(tif_message) = 2
  /\ Len(tifs_lack) = 1
  /\ tifs_lack[1][2] = PAN /\ tifs_lack[1][3] = FWD /\ tifs_lack[1][4] = "0.8m"

\* C4 as stated: a group that is one GF2 file whose stem ends in the segment "P"
\* (GF2_..._P) gets exactly one LackRecord, (id, MSS, "-", "4m").
C4_UnderscorePGivesOneLack ==
  (LackDone /\ tif_type = GF2 /\ Len(tifs) = 1 /\ Last(Split(tifs[1], "_")) = <<"P">>) =>
    /\ Len(tifs_lack) = 1
    /\ <<tifs_lack[1][2], tifs_lack[1][3], tifs_lack[1][4]>> = <<MSS, "-", "4m">>

\* C4 amended: a group that is one GF2 file with at least five "_"-delimited
\* segments whose last "-"-delimited token starts with "P" gets exactly one
\* LackRecord, (stem, MSS, "-", "4m"); a GF2 file whose stem holds no "-" gets
\* two, (stem, PAN, "-", "1m") and (stem, MSS, "-", "4m").
C4_HyphenPGivesOneLack ==
  (LackDone /\ tif_type = GF2 /\ Len(tifs) = 1) =>
    /\ (Len(Split(tifs[1], "_")) >= 5 /\ Last(Split(tifs[1], "-"))[1] = "P")
         => tifs_lack = << <<tifs[1], MSS, "-", "4m">> >>
    /\ Len(Split(tifs[1], "-")) = 1
         => tifs_lack = << <<tifs[1], PAN, "-", "1m">>, <<tifs[1], MSS, "-", "4m">> >>

\* the lone GF2 panchromatic file
C4_Witness ==
  /\ LackDone
  /\ tif_type = GF2
  /\ tifs = << GF2 \o Seg4 \o <<"_", "A", "-", "P">> >>
  /\ Len(tifs_lack) = 1

(***************************************************************************)
(* A call of get_quality(source_path, tif_path), tile by tile.  q holds    *)
(* the locals: data ("None" or "dataset"), k (the number of the next       *)
(* tile), total_bad, total_pixels, is_open, is_bad, is_loss, scan ("no",   *)
(* "complete" or "failed") and handles, the number of datasets open.       *)
(***************************************************************************)
MaxBlocks == 1
MaxSidecars == 2

\* raster widths and heights: empty, small, and around whole numbers of tiles
Sizes == {0, 10, 100} \cup {n * block_size + d : n \in 1..MaxBlocks, d \in {-1, 0, 1}}

\* zero counts of a band of w x h pixels: none, at and just above 30%, 40%, all
ZeroCounts(w, h) ==
  {0, (3 * w * h) \div 10, (3 * w * h) \div 10 + 1, (4 * w * h) \div 10, w * h} \cap 0..(w * h)

NullRaster == [open |-> "null", x_size |-> 0, y_size |-> 0, band_count |-> 0, zeros |-> 0]

OpenRasters ==
  UNION {UNION {{[open |-> "ok", x_size |-> w, y_size |-> h, band_count |-> b, zeros |-> z] :
                   z \in ZeroCounts(w, h), b \in {0, 1, 4}} : w \in Sizes} : h \in Sizes}

X == <<"X">>
X_rpc == <<"X", "_", "r", "p", "c">>
X_rpb == <<"X", "_", "r", "p", "b">>
DotTxt == <<".", "t", "x", "t">>

\* file names that may lie below source_path
SidecarNames ==
  { X \o DotRpc, X \o UnderRpcTxt, X_rpc \o DotRpc, X \o <<"_", "o", "t", "h", "e", "r">> \o DotRpc,
    X_rpb \o DotRpc, X \o DotRpb, X_rpb \o DotRpb, X_rpc \o DotRpb,
    <<"Y">> \o DotRpc, X \o DotTxt }

SubsetsUpTo(S, n) == {T \in SUBSET S : Cardinality(T) <= n}

SearchOutcomes == {"ok", "PermissionError_rpc", "PermissionError_rpb", "OSError"}

QualityPaths == {<<"d1", X \o DotTif>>, <<"d1", X_rpc \o DotTif>>}

q0 ==
  [data |-> "None", k |-> 1, total_bad |-> 0, total_pixels |-> 0,
   is_open |-> FALSE, is_bad |-> FALSE, is_loss |-> FALSE, scan |-> "no", handles |-> 0]

\* every raster with two sidecar layouts, and three rasters with every layout
QualityInit ==
  /\ pc = "open"
  /\ \/ /\ raster \in OpenRasters \cup {NullRaster, ClosedRaster}
        /\ tif_path = <<"d1", X \o DotTif>>
        /\ files \in {{}, {X \o DotRpc, X \o DotRpb}}
        /\ search = "ok"
     \/ /\ raster \in {GoodRaster, NullRaster, ClosedRaster}
        /\ tif_path \in QualityPaths
        /\ files \in SubsetsUpTo(SidecarNames, MaxSidecars)
        /\ search \in SearchOutcomes
  /\ q = q0
  /\ quality = None
  /\ MainIdle /\ LackIdle /\ BatchIdle

\* lines 330-332, 370-375
q_open ==
  /\ pc = "open"
  /\ q' = [q EXCEPT !.data = AfterOpen(raster).data,
                    !.is_open = AfterOpen(raster).is_open,
                    !.is_loss = AfterOpen(raster).is_loss,
                    !.handles = IF AfterOpen(raster).data = "dataset" THEN 1 ELSE 0]
  /\ pc' = IF AfterOpen(raster).data = "dataset" THEN "scan" ELSE "finally"
  /\ UNCHANGED <<raster, tif_path, files, search, quality, mainVars, lackVars, batchVars>>

\* lines 352-360: one tile is read and counted
q_read_tile ==
  /\ pc = "scan"
  /\ q.k <= NumTiles(raster)
  /\ raster.band_count >= 1
  /\ q' = [q EXCEPT !.k = @ + 1,
                    !.total_bad = @ + block_bad(raster, TileAt(raster, q.k)),
                    !.total_pixels = @ + block_total(raster, TileAt(raster, q.k))]
  /\ UNCHANGED <<pc, raster, tif_path, files, search, quality, mainVars, lackVars, batchVars>>

\* a plausible slip: the ratio of the tiles read so far is kept when a read fails
q_read_fails_keeps_ratio ==
  /\ pc = "scan"
  /\ q.k <= NumTiles(raster)
  /\ q' = [q EXCEPT !.is_bad = IsBad(q.total_bad, q.total_pixels),
                    !.is_loss = TRUE, !.scan = "failed"]
  /\ pc' = "finally"
  /\ UNCHANGED <<raster, tif_path, files, search, quality, mainVars, lackVars, batchVars>>

\* lines 352-354, 366-369: the read of a tile returns None or raises
q_read_fails ==
  /\ pc = "scan"
  /\ q.k <= NumTiles(raster)
  /\ q' = [q EXCEPT !.is_loss = TRUE, !.scan = "failed"]
  /\ pc' = "finally"
  /\ UNCHANGED <<raster, tif_path, files, search, quality, mainVars, lackVars, batchVars>>

\* lines 363-365: the loops are over
q_scan_done ==
  /\ pc = "scan"
  /\ q.k > NumTiles(raster)
  /\ q' = [q EXCEPT !.is_bad = IsBad(q.total_bad, q.total_pixels),
                    !.is_loss = raster.band_count < 1,
                    !.scan = "complete"]
  /\ pc' = "finally"
  /\ UNCHANGED <<raster, tif_path, files, search, quality, mainVars, lackVars, batchVars>>

\* lines 376-379
q_finally ==
  /\ pc = "finally"
  /\ q' = [q EXCEPT !.data = "None", !.handles = 0]
  /\ pc' = "sidecars"
  /\ UNCHANGED <<raster, tif_path, files, search, quality, mainVars, lackVars, batchVars>>

\* lines 381-423
q_sidecars ==
  /\ pc = "sidecars"
  /\ quality' = IF search = "OSError" THEN Raise("OSError")
                ELSE Return(<<q.is_open, q.is_bad, q.is_loss,
                              exist_rpc(files, search, StemOf(tif_path)),
                              exist_rpb(files, search, StemOf(tif_path))>>)
  /\ pc' = "quality_done"
  /\ UNCHANGED <<raster, tif_path, files, search, q, mainVars, lackVars, batchVars>>

QualityNext ==
  \/ q_open \/ q_read_tile \/ q_read_fails \/ q_scan_done \/ q_finally \/ q_sidecars

SpecQuality == QualityInit /\ [][QualityNext]_vars

(***************************************************************************)
(* Quality claims (SpecQuality).                                           *)
(***************************************************************************)
QualityDone == pc = "quality_done" /\ quality.exc = ""

\* the counts of the whole raster read at once
zeroCount == raster.band_count * raster.zeros
totalCount == raster.band_count * raster.x_size * raster.y_size

\* C6: for a raster that opens and is scanned without error, is_bad is true exactly
\* when totalCount > 0 and 10 * zeroCount > 3 * totalCount; with 4 bands and 40%
\* zeros the flags are is_open, is_bad and not is_loss.
C6_CorruptedIffRatioAbove30Percent ==
  (QualityDone /\ q.scan = "complete") =>
    /\ quality.val[2] = (totalCount > 0 /\ 10 * zeroCount > 3 * totalCount)
    /\ (raster.band_count = 4 /\ totalCount > 0 /\ 10 * zeroCount = 4 * totalCount)
         => <<quality.val[1], quality.val[2], quality.val[3]>> = <<TRUE, TRUE, FALSE>>

\* a raster of several tiles with exactly 30% zero samples is not corrupted
C6_Witness ==
  /\ QualityDone
  /\ q.scan = "complete"
  /\ NumTiles(raster) > 1
  /\ totalCount > 0
  /\ 10 * zeroCount = 3 * totalCount
  /\ quality.val[2] = FALSE

\* the names of the RPC and RPB sidecars of a raster stem
RpcNamesOf(stem) ==
  {stem \o DotRpc, stem \o UnderRpc \o DotRpc, stem \o UnderRpcTxt}
    \cup (IF EndsWith(stem, UnderRpc) THEN {stem \o DotTxt} ELSE {})

RpbNamesOf(stem) == {stem \o DotRpb, stem \o UnderRpb \o DotRpb}

\* C7: when the sidecar search meets no error, exist_rpc is true exactly when a
\* file below source_path is named as an RPC sidecar of the raster (S.rpc,
\* S_rpc.rpc, S_rpc.txt, or S.txt when S ends in _rpc), and exist_rpb exactly when
\* one is named S.rpb or S_rpb.rpb; X_other.rpc alone gives neither flag.
C7_SidecarMatchIsExactOrSuffixed ==
  (QualityDone /\ search = "ok") =>
    /\ quality.val[4] = (files \cap RpcNamesOf(StemOf(tif_path)) # {})
    /\ quality.val[5] = (files \cap RpbNamesOf(StemOf(tif_path)) # {})
    /\ files = {X \o <<"_", "o", "t", "h", "e", "r">> \o DotRpc}
         => (~quality.val[4] /\ ~quality.val[5])

\* X_rpc.txt matches raster X, X_other.rpc beside it does not matter, no RPB
C7_Witness ==
  /\ QualityDone
  /\ search = "ok"
  /\ StemOf(tif_path) = X
  /\ files = {X \o UnderRpcTxt, X \o <<"_", "o", "t", "h", "e", "r">> \o DotRpc}
  /\ quality.val[4] = TRUE
  /\ quality.val[5] = FALSE

\* C8 as stated: when gdal.Open returns None or raises, the three raster flags stay
\* false.
C8_OpenFailureLeavesAllFalse ==
  (QualityDone /\ raster.open \in {"null", "raise"}) =>
    <<quality.val[1], quality.val[2], quality.val[3]>> = <<FALSE, FALSE, FALSE>>

\* C8 amended: when gdal.Open returns None or raises, the raster makes
\* get_quality raise nothing, is_open and is_bad are false, and is_loss is false
\* after a None and true after a raise.
C8_OpenFailureFlags ==
  (pc = "quality_done" /\ raster.open \in {"null", "raise"}) =>
    /\ search # "OSError" => quality.exc = ""
    /\ quality.exc = "" =>
         <<quality.val[1], quality.val[2], quality.val[3]>>
           = <<FALSE, FALSE, raster.open = "raise">>

\* gdal.Open raised and the record says the spectrum is missing
C8_Witness ==
  /\ QualityDone
  /\ raster.open = "raise"
  /\ quality.val[1] = FALSE
  /\ quality.val[3] = TRUE

(***************************************************************************)
(* Controller_check_main: a batch run over the folder img_path.            *)
(***************************************************************************)
\* a plausible slip: a folder without rasters is no failure of the search
search_tif_empty_ok(source, found) ==
  IF source = "missing" THEN Raise("ValueError")
  ELSE IF source = "file" THEN Raise("ValueError")
  ELSE IF source = "unreadable" THEN Raise("PermissionError")
  ELSE Return(SelectSeq(found, LAMBDA p : EndsWith(PathName(p), DotTiff))
              \o SelectSeq(found, LAMBDA p : EndsWith(PathName(p), DotTif)))

\* search_tif, lines 20-71: the paths found, .tiff matches before .tif matches, or
\* the exception raised
search_tif(source, found) ==
  IF source = "missing" THEN Raise("ValueError")
  ELSE IF source = "file" THEN Raise("ValueError")
  ELSE IF source = "unreadable" THEN Raise("PermissionError")
  ELSE LET tif_files == SelectSeq(found, LAMBDA p : EndsWith(PathName(p), DotTif))
           tiff_files == SelectSeq(found, LAMBDA p : EndsWith(PathName(p), DotTiff))
           all_tif == tiff_files \o tif_files
       IN IF all_tif = <<>> THEN Raise("FileNotFoundError") ELSE Return(all_tif)

\* validate_tif_files, lines 664-685, for one file: "valid", or why it is not
ValidateOne(r) ==
  IF r.open = "raise" THEN "exception"
  ELSE IF r.open = "null" THEN "none"
  ELSE IF r.band_count < 1 THEN "no_band"
  ELSE IF r.x_size < 10 \/ r.y_size < 10 THEN "too_small"
  ELSE "valid"

\* lines 664-665: the datasets open when gdal.Open has answered and data still
\* holds the dataset of an earlier file
HandlesWhileOpening(open_now, opened, r) ==
  IF r.open = "ok" THEN open_now \cup {opened} ELSE open_now

\* lines 664-665, 684: the datasets open once data is rebound; an exception
\* leaves data as it was
HandlesAfterOpening(open_now, opened, r) ==
  IF r.open = "raise" THEN open_now
  ELSE IF r.open = "null" THEN {}
  ELSE {opened}

\* to_csv, lines 599-617 and 620-634, for one report: written only when the
\* table has rows, otherwise the file is left as it is
SaveCsv(old, table) == IF Len(table) > 0 THEN File(table) ELSE old

\* the locals of Controller_check_main before line 707 runs
NoLocals ==
  [img_names |-> <<>>, valid_tif_paths |-> <<>>, idx |-> 0,
   all_tifs_message |-> <<>>, all_tifs_lack |-> <<>>, peak |-> 0]

MaxDisk == 2

TinyRaster == [open |-> "ok", x_size |-> 5, y_size |-> 5, band_count |-> 1, zeros |-> 0]
NoBandRaster == [open |-> "ok", x_size |-> 10, y_size |-> 10, band_count |-> 0, zeros |-> 0]
BatchRasters == {GoodRaster, TinyRaster, NoBandRaster, NullRaster, ClosedRaster}

\* the files a folder may hold
BatchPaths ==
  { <<"d1", GF1 \o Seg4 \o <<"_", "A", "-", "P">> \o DotTif>>,
    <<"d1", GF1 \o Seg4 \o <<"_", "A", "-", "M">> \o DotTif>>,
    <<"d1", GF2 \o Seg4 \o <<"_", "A", "-", "P">> \o DotTiff>>,
    <<"d1", foo_x \o DotTif>>,
    <<"d1", <<"_", "x">> \o DotTif>>,
    <<"d1", X \o UnderRpcTxt>> }

BatchRoots == {"missing", "file", "unreadable", "dir"}

\* the reports an earlier run over the folder has left: one metadata row and one
\* LackRecord of a raster that was there then
OldStem == GF6 \o Seg4 \o <<"_", "O", "-", "P">>
OldMessageCsv == File(<< <<OldStem, GF6, <<"d">>, PAN, "-", "2m", TRUE, FALSE, FALSE, FALSE, FALSE, "-">> >>)
OldLackCsv == File(<< <<OldStem, MSS, "-", "8m">> >>)

BatchInit ==
  /\ pc = "search_tif"
  /\ root \in BatchRoots
  /\ disk \in IF root = "dir" THEN DistinctSeqs(BatchPaths, MaxDisk) ELSE {<<>>}
  /\ env \in [files : {{PathName(p) : p \in Range(disk)}},
              search : {[p \in Range(disk) |-> "ok"]},
              raster : [Range(disk) -> BatchRasters],
              fail_at : {[p \in Range(disk) |-> 0]}]
  /\ run = NoLocals
  /\ handles = {}
  /\ message_csv \in {NoFile, OldMessageCsv}
  /\ lack_csv \in {NoFile, OldLackCsv}
  /\ diagnostic = ""
  /\ img_names = <<>> /\ grouped = None /\ ret = None
  /\ LackIdle /\ QualityIdle

\* line 707, and lines 759-765 when search_tif raises
batch_search_tif ==
  /\ pc = "search_tif"
  /\ LET found == search_tif(root, disk)
     IN IF found.exc # ""
        THEN /\ pc' = "batch_aborted"
             /\ diagnostic' = found.exc
             /\ run' = run
        ELSE /\ pc' = "validate_tif_files"
             /\ diagnostic' = diagnostic
             /\ run' = [run EXCEPT !.img_names = found.val, !.idx = 1]
  /\ UNCHANGED <<root, disk, env, handles, message_csv, lack_csv,
                 img_names, grouped, ret, lackVars, qualityVars>>

\* lines 660-685: one turn of the loop of validate_tif_files
batch_validate_file ==
  /\ pc = "validate_tif_files"
  /\ run.idx <= Len(run.img_names)
  /\ LET path == run.img_names[run.idx]
         r == env.raster[path]
         during == HandlesWhileOpening(handles, path, r)
     IN /\ handles' = HandlesAfterOpening(handles, path, r)
        /\ run' = [run EXCEPT
                     !.valid_tif_paths = IF ValidateOne(r) = "valid" THEN Append(@, path) ELSE @,
                     !.idx = @ + 1,
                     !.peak = IF Cardinality(during) > @ THEN Cardinality(during) ELSE @]
  /\ UNCHANGED <<pc, root, disk, env, message_csv, lack_csv, diagnostic,
                 img_names, grouped, ret, lackVars, qualityVars>>

\* lines 687-698: the loop is over; the function returns and its locals go
batch_validate_return ==
  /\ pc = "validate_tif_files"
  /\ run.idx > Len(run.img_names)
  /\ handles' = {}
  /\ IF run.valid_tif_paths = <<>>
     THEN /\ pc' = "batch_aborted"
          /\ diagnostic' = "ValueError"
          /\ run' = run
     ELSE /\ pc' = "process"
          /\ diagnostic' = diagnostic
          /\ run' = [run EXCEPT !.idx = 1]
  /\ UNCHANGED <<root, disk, env, message_csv, lack_csv,
                 img_names, grouped, ret, lackVars, qualityVars>>

\* lines 717-740: one turn of the loop of Controller_check_main, main called with
\* the one file; an exception of main ends the run (lines 759-765)
batch_process_file ==
  /\ pc = "process"
  /\ run.idx <= Len(run.valid_tif_paths)
  /\ LET img_file == run.valid_tif_paths[run.idx]
         out == main(<<img_file>>, env)
     IN IF out.exc # ""
        THEN /\ pc' = "batch_aborted"
             /\ diagnostic' = out.exc
             /\ run' = run
        ELSE /\ pc' = pc
             /\ diagnostic' = diagnostic
             /\ run' = [run EXCEPT
                          !.all_tifs_message = @ \o out.val.merged_msg,
                          !.all_tifs_lack = @ \o out.val.merged_lack,
                          !.idx = @ + 1]
  /\ UNCHANGED <<root, disk, env, handles, message_csv, lack_csv,
                 img_names, grouped, ret, lackVars, qualityVars>>

\* lines 742-755: the tables are stacked and saved
batch_to_csv ==
  /\ pc = "process"
  /\ run.idx > Len(run.valid_tif_paths)
  /\ message_csv' = SaveCsv(message_csv, run.all_tifs_message)
  /\ lack_csv' = SaveCsv(lack_csv, run.all_tifs_lack)
  /\ pc' = "batch_done"
  /\ UNCHANGED <<root, disk, env, run, handles, diagnostic,
                 img_names, grouped, ret, lackVars, qualityVars>>

BatchNext ==
  \/ batch_search_tif
  \/ batch_validate_file
  \/ batch_validate_return
  \/ batch_process_file
  \/ batch_to_csv

SpecBatch == BatchInit /\ [][BatchNext]_vars

(***************************************************************************)
(* Batch claims (SpecBatch).                                               *)
(***************************************************************************)
BatchDone == pc = "batch_done"

\* validated files p1, p2 are the panchromatic and the multispectral raster of
\* one acquisition of a satellite whose rule wants exactly that pair
CompletePair(p1, p2) ==
  /\ SateTypeOf(StemOf(p1)) \in TwoSensorIdTypes
  /\ SateTypeOf(StemOf(p2)) = SateTypeOf(StemOf(p1))
  /\ get_tif_id(StemOf(p1), SateTypeOf(StemOf(p1))).exc = ""
  /\ get_tif_id(StemOf(p2), SateTypeOf(StemOf(p2)))
       = get_tif_id(StemOf(p1), SateTypeOf(StemOf(p1)))
  /\ get_message(StemOf(p1), SateTypeOf(StemOf(p1)))[4] = PAN
  /\ get_message(StemOf(p2), SateTypeOf(StemOf(p2)))[4] = MSS

\* the lack rows the saved report holds about the raster of path p
LackRowsAbout(p) ==
  IF ~lack_csv.exists THEN {}
  ELSE {n \in 1..Len(lack_csv.rows) :
          lack_csv.rows[n][1] \in {StemOf(p),
                              get_tif_id(StemOf(p), SateTypeOf(StemOf(p))).val}}

\* C2: after a batch run over a folder holding the panchromatic and the
\* multispectral raster of one acquisition, both validated, the lack report
\* holds no row about that acquisition.
C2_CompletePairHasNoLackRow ==
  BatchDone =>
    \A p1, p2 \in Range(run.valid_tif_paths) :
      CompletePair(p1, p2) => LackRowsAbout(p1) \cup LackRowsAbout(p2) = {}

(***************************************************************************)
(* A call of get_message(tif_name, sate_type) alone: tifs holds the one    *)
(* stem, tif_type the satellite type, ret what the call returned.          *)
(***************************************************************************)
\* stems of every family, well formed and short, and stems with an empty segment
\* where a rule reads its sensor code
MessageStems ==
  UNION {LackStems(t) : t \in LackTypes}
    \cup { <<>>,
           GF1 \o Seg4 \o <<"_", "A", "-">>,
           GF7 \o Seg4 \o <<"_">>,
           zy303a \o <<"_", "_", "A", "_", "B", "_", "d">>,
           TH01_01 \o <<"_", "T", "_", "x", "_", "_", "1">> }

MessageTypes == LackTypes \cup {<<>>}

MessageInit ==
  /\ pc = "get_message"
  /\ tifs \in {<<st>> : st \in MessageStems}
  /\ tif_type \in MessageTypes
  /\ ret = None
  /\ tif_message = <<>> /\ tifs_lack = <<>>
  /\ img_names = <<>> /\ env = <<>> /\ grouped = None
  /\ QualityIdle /\ BatchIdle

\* lines 175-310
message_call ==
  /\ pc = "get_message"
  /\ ret' = Return(get_message(tifs[1], tif_type))
  /\ pc' = "message_done"
  /\ UNCHANGED <<img_names, env, grouped, lackVars, qualityVars, batchVars>>

MessageNext == message_call

SpecMessage == MessageInit /\ [][MessageNext]_vars

(***************************************************************************)
(* Metadata claims (SpecMessage).                                          *)
(***************************************************************************)
MessageDone == pc = "message_done"

\* the number of "_"-delimited segments the rule of family t reads
NeededSegments(t) ==
  IF t \in TwoSensorIdTypes THEN 5
  ELSE IF t \in SVTypes THEN 2
  ELSE IF t = GF7 THEN 6
  ELSE 5

\* the sensor code the rule of family t reads in a stem that is long enough
SensorCode(st, t) ==
  LET parts == Split(st, "_")
      tok == Last(Split(st, "-"))
  IN IF t \in TwoSensorIdTypes \cup SVTypes THEN <<Prefix(tok, 1)>>
     ELSE IF t = GF7 THEN <<Prefix(parts[6], 1)>>
     ELSE IF t \in ZY3Types THEN <<Prefix(parts[2], 1)>>
     ELSE <<Prefix(parts[4], 1), parts[5]>>

\* the sensor codes family t knows
CodeKnown(code, t) ==
  IF t \in TwoSensorIdTypes \cup SVTypes THEN code[1] \in {<<"M">>, <<"P">>}
  ELSE IF t = GF7 THEN code[1] \in {<<"M">>, <<"B">>, <<"F">>}
  ELSE IF t \in ZY3Types THEN code[1] \in {<<"b">>, <<"f">>, <<"n">>, <<"m">>}
  ELSE \/ code[1] = <<"S">> /\ code[2] \in {<<"1">>, <<"2">>, <<"3">>}
       \/ code[1] \in {<<"G">>, <<"D">>}

\* the family is known, the stem is as long as its rule expects and carries a
\* sensor code the family knows
RuleApplies(st, t) ==
  /\ t \in KnownTypes
  /\ Len(Split(st, "_")) >= NeededSegments(t)
  /\ CodeKnown(SensorCode(st, t), t)

\* C11: for every stem and every satellite type get_message returns a record of 6
\* fields without raising, its first field the stem, its sensor type one of MSS,
\* PAN, HIRES, "", its angle one of FWD, NADIR, BWD, "-", its resolution empty
\* exactly when the sensor type is; when the family is unknown, the stem shorter
\* than the family's rule expects or the sensor code unknown to the family, the
\* sensor type is "", the angle "-" and the resolution ""; otherwise the sensor
\* type is not empty.
C11_MessageIsTotalWithDefaults ==
  MessageDone =>
    LET m == ret.val
    IN /\ ret.exc = ""
       /\ Len(m) = 6
       /\ m[1] = tifs[1]
       /\ m[4] \in {MSS, PAN, HIRES, ""}
       /\ m[5] \in {FWD, NADIR, BWD, "-"}
       /\ (m[6] = "") <=> (m[4] = "")
       /\ ~RuleApplies(tifs[1], tif_type) => <<m[4], m[5], m[6]>> = <<"", "-", "">>
       /\ RuleApplies(tifs[1], tif_type) => m[4] # ""

\* a TH01 stem with an angle code its family does not know gets the defaults,
\* its time read all the same
C11_Witness ==
  /\ MessageDone
  /\ tif_type = TH01_01
  /\ tifs[1] = TH01_01 \o <<"_", "T", "_", "x", "_", "S", "_", "9", "_", "A", "_", "B">>
  /\ <<ret.val[4], ret.val[5], ret.val[6]>> = <<"", "-", "">>

\* the run stands in search_tif or validate_tif_files, or it was aborted
BeforeProcessing == pc \in {"search_tif", "validate_tif_files", "batch_aborted"}

\* no file below the folder is named *.tif or *.tiff
NoRasterNames ==
  \A i \in 1..Len(disk) : ~EndsWith(PathName(disk[i]), DotTif) /\ ~EndsWith(PathName(disk[i]), DotTiff)

\* C12: a step taken in search_tif or validate_tif_files leaves message.csv and
\* lack.csv as they were and never leads to to_csv; when the root is missing, a
\* file or unreadable, when no *.tif or *.tiff file is found, or when no file
\* passes validation, the step ends the run with a diagnostic, and for an
\* existing folder without rasters the diagnostic is FileNotFoundError.
C12_FatalConditionsWriteNoReport ==
  [][ /\ BeforeProcessing =>
           /\ message_csv' = message_csv /\ lack_csv' = lack_csv
           /\ pc' # "batch_done"
      /\ (pc = "search_tif" /\ (root # "dir" \/ NoRasterNames)) =>
           pc' = "batch_aborted" /\ diagnostic' # ""
      /\ (pc = "search_tif" /\ root = "dir" /\ NoRasterNames) =>
           diagnostic' = "FileNotFoundError"
      /\ (pc = "validate_tif_files" /\ run.idx > Len(run.img_names)
            /\ run.valid_tif_paths = <<>>) =>
           pc' = "batch_aborted" /\ diagnostic' = "ValueError"
      /\ (pc' = "batch_aborted" /\ BeforeProcessing) => diagnostic' # ""
    ]_vars

\* a folder with rasters none of which passes validation, the reports of an
\* earlier run still there
C12_Witness ==
  /\ pc = "batch_aborted"
  /\ diagnostic = "ValueError"
  /\ Len(run.img_names) = MaxDisk
  /\ run.valid_tif_paths = <<>>
  /\ message_csv = OldMessageCsv /\ lack_csv = OldLackCsv

(***************************************************************************)
(* Isolation claims (SpecMain).                                            *)
(***************************************************************************)
Returned == pc = "returned" /\ ret.exc = ""

\* the assessment of the raster of path p raises
AssessFails(p) == env.search[p] = "OSError"

\* some member of group g of G makes get_tif raise
GroupFails(G, g) == \E k \in 1..Len(G.tifs_path[g]) : AssessFails(G.tifs_path[g][k])

\* the FullRecord of member k of group g: metadata, quality, cloud cover
FullRecord(G, g, k) ==
  get_message(G.tifs[g][k], G.tif_satetypes[g])
    \o get_quality(env.files, env.search[G.tifs_path[g][k]], G.tifs_path[g][k],
                   env.raster[G.tifs_path[g][k]], env.fail_at[G.tifs_path[g][k]]).val
    \o <<"-">>

GroupRecords(G, g) == [k \in 1..Len(G.tifs[g]) |-> FullRecord(G, g, k)]

\* the rows of the groups from g on that do not fail, in group order
RECURSIVE RowsOfOtherGroups(_, _)
RowsOfOtherGroups(G, g) ==
  IF g > Len(G.tifs) THEN <<>>
  ELSE (IF GroupFails(G, g) THEN <<>> ELSE GroupRecords(G, g)) \o RowsOfOtherGroups(G, g + 1)

\* the LackRecords of the groups from g on that do not fail, in group order
RECURSIVE LacksOfOtherGroups(_, _)
LacksOfOtherGroups(G, g) ==
  IF g > Len(G.tifs) THEN <<>>
  ELSE (IF GroupFails(G, g) THEN <<>> ELSE get_lack(GroupRecords(G, g), G.tif_satetypes[g]))
         \o LacksOfOtherGroups(G, g + 1)

\* C13: when main returns, the metadata table is the rows of the groups in which
\* no assessment raised, in group order, and the missing-sensor table the
\* LackRecords of those groups; a group in which an assessment raised has no row
\* in either table.
C13_FailedGroupIsSkipped ==
  Returned =>
    /\ ret.val.merged_msg = RowsOfOtherGroups(grouped.val, 1)
    /\ ret.val.merged_lack = LacksOfOtherGroups(grouped.val, 1)

\* two groups, the first fails, the second is reported
C13_Witness ==
  /\ Returned
  /\ Len(grouped.val.tifs) = 2
  /\ GroupFails(grouped.val, 1)
  /\ ~GroupFails(grouped.val, 2)
  /\ Len(ret.val.merged_msg) = 1
  /\ ret.val.merged_msg[1][1] = grouped.val.tifs[2][1]
  /\ Len(ret.val.merged_lack) >= 1

(***************************************************************************)
(* Report claims (SpecBatch).                                              *)
(***************************************************************************)
\* the report file shows the table and nothing else: for an empty table there is
\* no file or a file without rows
ReportShows(csv, table) ==
  csv.rows = table /\ (table # <<>> => csv.exists)

\* C14 as stated: after a batch run that completes, message.csv holds exactly the
\* run's metadata table and lack.csv exactly the run's missing-sensor table,
\* whatever an earlier run had written.
C14_ReportsReflectThisRunOnly ==
  BatchDone =>
    /\ ReportShows(message_csv, run.all_tifs_message)
    /\ ReportShows(lack_csv, run.all_tifs_lack)

(***************************************************************************)
(* More completeness claims (SpecLack).                                    *)
(***************************************************************************)
\* the LackRecords labelled with sensor type, angle and resolution
LacksLabelled(lacks, sensor_type, sensor_angle, resolution) ==
  {n \in 1..Len(lacks) :
     <<lacks[n][2], lacks[n][3], lacks[n][4]>> = <<sensor_type, sensor_angle, resolution>>}

\* no record of the group is a nadir panchromatic one
NoNadirPan(rows) == \A i \in 1..Len(rows) : ~(rows[i][4] = PAN /\ rows[i][5] = NADIR)

\* C15: for zy303a/zy302a a non-empty group without a (PAN, NADIR) record gets
\* exactly one LackRecord labelled (PAN, FWD, "2m"), a group with such a record
\* none, and no LackRecord of the family is labelled PAN with NADIR; for TH01-0x
\* a group without a (PAN, NADIR) record gets exactly one LackRecord labelled
\* (PAN, NADIR, "5m"), a group with such a record none.
C15_ZY3NadirGapIsLabelledFore ==
  (LackDone /\ Len(tif_message) >= 1) =>
    /\ tif_type \in ZY3Types =>
         /\ Cardinality(LacksLabelled(tifs_lack, PAN, FWD, "2m"))
              = (IF NoNadirPan(tif_message) THEN 1 ELSE 0)
         /\ \A n \in 1..Len(tifs_lack) : ~(tifs_lack[n][2] = PAN /\ tifs_lack[n][3] = NADIR)
    /\ tif_type \in TH01Types =>
         Cardinality(LacksLabelled(tifs_lack, PAN, NADIR, "5m"))
           = (IF NoNadirPan(tif_message) THEN 1 ELSE 0)

\* a zy303a group with the aft, fore and multispectral files and no nadir file:
\* the one LackRecord says (PAN, FWD, "2m")
C15_Witness ==
  /\ LackDone
  /\ tif_type = zy303a
  /\ Len(tif_message) = 3
  /\ Len(tifs_lack) = 1
  /\ <<tifs_lack[1][2], tifs_lack[1][3], tifs_lack[1][4]>> = <<PAN, FWD, "2m">>

(***************************************************************************)
(* Scan claims (SpecQuality).                                              *)
(***************************************************************************)
ScanComplete == QualityDone /\ q.scan = "complete"

\* tile t lies inside the raster, is not empty and no edge is longer than a block
TileInside(t) ==
  /\ 0 <= t.x /\ 0 <= t.y
  /\ 1 <= t.current_x_size /\ t.current_x_size <= block_size
  /\ 1 <= t.current_y_size /\ t.current_y_size <= block_size
  /\ t.x + t.current_x_size <= raster.x_size
  /\ t.y + t.current_y_size <= raster.y_size

\* tiles t1 and t2 share no pixel position
TilesDisjoint(t1, t2) ==
  \/ t1.x + t1.current_x_size <= t2.x \/ t2.x + t2.current_x_size <= t1.x
  \/ t1.y + t1.current_y_size <= t2.y \/ t2.y + t2.current_y_size <= t1.y

\* C16: when the scan of a raster with at least one band completes, the tiles
\* read lie inside the raster, are pairwise disjoint and cover width x height
\* pixel positions, and the accumulated counts are the zero count and the sample
\* count of the whole raster.
C16_TilesCoverRasterOnce ==
  (ScanComplete /\ raster.band_count >= 1) =>
    /\ \A k \in 1..NumTiles(raster) : TileInside(TileAt(raster, k))
    /\ \A k1, k2 \in 1..NumTiles(raster) :
         k1 < k2 => TilesDisjoint(TileAt(raster, k1), TileAt(raster, k2))
    /\ q.total_pixels = raster.band_count * raster.x_size * raster.y_size
    /\ q.total_bad = zeroCount
    /\ q.total_pixels = totalCount

\* a raster one pixel wider and higher than a block, with zeros in it: four tiles
C16_Witness ==
  /\ ScanComplete
  /\ raster.x_size = block_size + 1 /\ raster.y_size = block_size + 1
  /\ NumTiles(raster) = 4
  /\ raster.zeros > block_size
  /\ raster.band_count = 4
  /\ q.total_bad = 4 * raster.zeros

(***************************************************************************)
(* Handle claims (SpecBatch).                                              *)
(***************************************************************************)
\* C17 as stated: during a batch run no two datasets are ever open together, and
\* when validate_tif_files is about to open its next file no dataset is open.
C17_AtMostOneHandleOpen ==
  /\ run.peak <= 1
  /\ (pc = "validate_tif_files" /\ run.idx <= Len(run.img_names)) => handles = {}

(***************************************************************************)
(* More isolation claims (SpecMain, SpecQuality).                          *)
(***************************************************************************)
\* C18 as stated: when main returns, every member of every group whose own
\* assessment did not raise has its FullRecord in the metadata table, whatever
\* happened to the other members of its group.
C18_FailureKeepsOtherRows ==
  Returned =>
    \A g \in 1..Len(grouped.val.tifs) :
      \A k \in 1..Len(grouped.val.tifs[g]) :
        ~AssessFails(grouped.val.tifs_path[g][k]) =>
          \E n \in 1..Len(ret.val.merged_msg) :
            ret.val.merged_msg[n] = FullRecord(grouped.val, g, k)

\* C19: when the raster opens and a tile read fails, whatever was counted
\* before, the flags are is_open, not is_bad, is_loss, and the raster makes
\* get_quality raise nothing; when the scan completes, is_loss is true exactly
\* when the raster has no band.
C19_ScanFailureFlags ==
  (pc = "quality_done" /\ raster.open = "ok") =>
    /\ search # "OSError" => quality.exc = ""
    /\ (quality.exc = "" /\ q.scan = "failed") =>
         <<quality.val[1], quality.val[2], quality.val[3]>> = <<TRUE, FALSE, TRUE>>
    /\ (quality.exc = "" /\ q.scan = "complete") =>
         /\ quality.val[1] = TRUE
         /\ quality.val[3] = (raster.band_count < 1)

\* a read fails after tiles full of zeros were counted
C19_Witness ==
  /\ QualityDone
  /\ q.scan = "failed"
  /\ q.k > 1
  /\ q.total_pixels > 0
  /\ 10 * q.total_bad > 3 * q.total_pixels
  /\ <<quality.val[1], quality.val[2], quality.val[3]>> = <<TRUE, FALSE, TRUE>>

(***************************************************************************)
(* Frame claims (SpecLack).                                                *)
(***************************************************************************)
\* row with its acquisition time, resolution, quality fields and cloud cover
\* replaced; satellite type, sensor type and angle kept
Rewritten(row, tif_time, resolution, flip, cloud) ==
  <<row[1], row[2], tif_time, row[4], row[5], resolution,
    row[7] # flip, row[8] # flip, row[9] # flip, row[10] # flip, row[11] # flip, cloud>>

\* the record sets that agree with rows on model id, satellite type, sensor type
\* and angle: the other columns rewritten in every row, or in all rows but the
\* first
Variants(rows) ==
  {[i \in 1..Len(rows) |->
      IF i >= from THEN Rewritten(rows[i], tif_time, resolution, flip, cloud) ELSE rows[i]] :
    from \in {1, 2}, tif_time \in {<<>>, <<"z">>}, resolution \in {"", "9m"},
    flip \in BOOLEAN, cloud \in {"-", "5"}}

\* C20: get_lack gives the same LackRecords for every record set of the group
\* that has the same id, sensor type and sensor angle columns, whatever the
\* acquisition times, resolutions, quality fields and cloud covers are, and
\* gives the same LackRecords when run again.
C20_LackReadsOnlyTypeAndAngle ==
  LackDone =>
    /\ get_lack(tif_message, tif_type) = tifs_lack
    /\ \A rows \in Variants(tif_message) : get_lack(rows, tif_type) = tifs_lack

\* a group of two records with gaps, and a record set that differs from it in
\* every column get_lack does not read
C20_Witness ==
  /\ LackDone
  /\ Len(tif_message) = 2
  /\ Len(tifs_lack) >= 2
  /\ \E rows \in Variants(tif_message) :
       /\ \A i \in 1..2 : \A c \in {3, 6, 7, 8, 9, 10, 11, 12} : rows[i][c] # tif_message[i][c]
       /\ get_lack(rows, tif_type) = tifs_lack

(***************************************************************************)
(* get_tif and get_lack on the groups that hold one file for each sensor   *)
(* code get_message reads for the family, or all of them but one.          *)
(***************************************************************************)
\* one stem for each sensor code the metadata rule of family t recognises, in the
\* order of the rule's branches
CodeStems(t) ==
  IF t \in TwoSensorIdTypes
    THEN << t \o Seg4 \o <<"_", "A", "-", "M">>, t \o Seg4 \o <<"_", "A", "-", "P">> >>
  ELSE IF t \in SVTypes
    THEN << t \o <<"_", "d", "_", "A", "_", "x", "-", "M">>,
            t \o <<"_", "d", "_", "A", "_", "x", "-", "P">> >>
  ELSE IF t = GF7
    THEN [i \in 1..3 |-> t \o Seg4 \o <<"_", <<"M", "B", "F">>[i], "_", "A">>]
  ELSE IF t \in ZY3Types
    THEN [i \in 1..4 |-> t \o <<"_", <<"b", "f", "n", "m">>[i], "_", "A", "_", "B", "_", "d">>]
  ELSE << t \o <<"_", "T", "_", "x", "_", "S", "_", "1", "_", "A", "_", "B">>,
          t \o <<"_", "T", "_", "x", "_", "S", "_", "2", "_", "A", "_", "B">>,
          t \o <<"_", "T", "_", "x", "_", "S", "_", "3", "_", "A", "_", "B">>,
          t \o <<"_", "T", "_", "x", "_", "G", "_", "1", "_", "A", "_", "B">>,
          t \o <<"_", "T", "_", "x", "_", "D", "_", "1", "_", "A", "_", "B">> >>

\* xs without its r-th element (all of xs when r = 0)
Without(xs, r) ==
  [i \in 1..(IF r = 0 THEN Len(xs) ELSE Len(xs) - 1) |-> IF r = 0 \/ i < r THEN xs[i] ELSE xs[i + 1]]

Reversed(xs) == [i \in 1..Len(xs) |-> xs[Len(xs) + 1 - i]]

TablesInit ==
  /\ pc = "get_tif"
  /\ tif_type \in KnownTypes
  /\ \E r \in 0..Len(CodeStems(tif_type)) :
       tifs \in {Without(CodeStems(tif_type), r), Reversed(Without(CodeStems(tif_type), r))}
  /\ tif_message = <<>>
  /\ tifs_lack = <<>>
  /\ MainIdle /\ QualityIdle /\ BatchIdle

SpecTables == TablesInit /\ [][LackNext]_vars

(***************************************************************************)
(* Rule table claims (SpecTables).                                         *)
(***************************************************************************)
\* the group holds a file for every code of its family
FullGroup == Range(tifs) = Range(CodeStems(tif_type))

\* the stem of the one code the group holds no file of
RemovedStem == CHOOSE st \in Range(CodeStems(tif_type)) : st \notin Range(tifs)

\* the group holds a file for every code of its family but one
OneRemoved ==
  /\ Range(tifs) \subseteq Range(CodeStems(tif_type))
  /\ Cardinality(Range(CodeStems(tif_type)) \ Range(tifs)) = 1

\* sensor type, angle and resolution of a metadata record or a LackRecord
LabelOfMessage(m) == <<m[4], m[5], m[6]>>
LabelOfLack(l) == <<l[2], l[3], l[4]>>

\* C21 as stated: for every known family a group with one file for each code
\* get_message recognises has no LackRecord, and a group with the file of one
\* code removed has exactly one, labelled with the sensor type, angle and
\* resolution get_message gives the removed file.
C21_RuleTablesAgree ==
  LackDone =>
    /\ FullGroup => tifs_lack = <<>>
    /\ OneRemoved =>
         /\ Len(tifs_lack) = 1
         /\ LabelOfLack(tifs_lack[1]) = LabelOfMessage(get_message(RemovedStem, tif_type))

\* C21 amended: as stated for every family but zy303a/zy302a; for these a group
\* without the nadir panchromatic file, which get_message labels (PAN, NADIR,
\* "2m"), has exactly one LackRecord, labelled (PAN, FWD, "2m"), and the other
\* three codes agree.
C21_RuleTablesAgreeButZY3Nadir ==
  LackDone =>
    /\ FullGroup => tifs_lack = <<>>
    /\ OneRemoved =>
         /\ Len(tifs_lack) = 1
         /\ LabelOfLack(tifs_lack[1])
              = (IF tif_type \in ZY3Types
                    /\ LabelOfMessage(get_message(RemovedStem, tif_type)) = <<PAN, NADIR, "2m">>
                 THEN <<PAN, FWD, "2m">>
                 ELSE LabelOfMessage(get_message(RemovedStem, tif_type)))

\* a TH01 group without its high-resolution file: the one LackRecord carries the
\* label get_message gives that file
C21_Witness ==
  /\ LackDone
  /\ tif_type = TH01_02
  /\ OneRemoved
  /\ LabelOfMessage(get_message(RemovedStem, tif_type)) = <<HIRES, NADIR, "2m">>
  /\ Len(tifs_lack) = 1
  /\ LabelOfLack(tifs_lack[1]) = <<HIRES, NADIR, "2m">>

====
